---- MODULE Spec2Model ----
(***************************************************************************)
(* Model of the playlist ingestion and channel matching code of the IPTV   *)
(* player: parseM3U, normalizeChannelName, findProgramForChannel and       *)
(* fetchGatoEPG (src/utils/epg.ts).                                        *)
(*                                                                         *)
(* A JavaScript string is a sequence of characters, a character is a       *)
(* one-element TLA+ string (or a named token for a non-ASCII character).   *)
(* An optional value (T | undefined) is a sequence of length 0 or 1.       *)
(***************************************************************************)
EXTENDS Integers, Sequences, FiniteSets, TLC

VARIABLES
    \* parseM3U
    content, lines, i, currentName, currentGroup, currentLogo, playlist, pc,
    \* findProgramForChannel
    channelName, epgMap, program, findPc,
    \* fetchGatoEPG
    fetchPc, requests, error, htmlContent, rows, rowIdx, fetchedMap, fetchResult,
    \* normalizeChannelName
    normName, normOnce, normTwice, otherName, otherOnce, normPc,
    \* App
    channels, currentIdx, powerOn, showChannelList, decoderStatus, showBanner, fetches, timers

parseVars == <<content, lines, i, currentName, currentGroup, currentLogo, playlist, pc>>

findVars == <<channelName, epgMap, program, findPc>>

fetchVars == <<fetchPc, requests, error, htmlContent, rows, rowIdx, fetchedMap, fetchResult>>

normVars == <<normName, normOnce, normTwice, otherName, otherOnce, normPc>>

appVars ==
    <<channels, currentIdx, powerOn, showChannelList, decoderStatus, showBanner, fetches, timers>>

vars == <<parseVars, findVars, fetchVars, normVars, appVars>>

(***************************************************************************)
(* Optional values                                                         *)
(***************************************************************************)
None == << >>
Some(x) == <<x>>

(***************************************************************************)
(* String primitives of the JavaScript runtime used by the code            *)
(***************************************************************************)
WhiteSpace == {" ", "\t", "\n", "\r"}

\* the characters of s
Range(s) == {s[k] : k \in 1..Len(s)}

\* s.indexOf(c) for a single character, 1-based, 0 when absent
IndexOf(s, c) ==
    IF \E k \in 1..Len(s) : s[k] = c
    THEN CHOOSE k \in 1..Len(s) : s[k] = c /\ \A j \in 1..(k - 1) : s[j] # c
    ELSE 0

\* s.lastIndexOf(c) for a single character, 1-based, 0 when absent
LastIndexOf(s, c) ==
    IF \E k \in 1..Len(s) : s[k] = c
    THEN CHOOSE k \in 1..Len(s) : s[k] = c /\ \A j \in (k + 1)..Len(s) : s[j] # c
    ELSE 0

\* s.startsWith(p)
StartsWith(s, p) == Len(s) >= Len(p) /\ SubSeq(s, 1, Len(p)) = p

\* s.includes(p)
Includes(s, p) == \E k \in 0..(Len(s) - Len(p)) : SubSeq(s, k + 1, k + Len(p)) = p

\* s.indexOf(p) for a string p, 1-based, 0 when absent
IndexOfStr(s, p) ==
    IF Includes(s, p)
    THEN CHOOSE k \in 1..(Len(s) - Len(p) + 1) :
            /\ SubSeq(s, k, k + Len(p) - 1) = p
            /\ \A j \in 1..(k - 1) : SubSeq(s, j, j + Len(p) - 1) # p
    ELSE 0

\* s.substring(n) with a 0-based n
Substring(s, n) == SubSeq(s, n + 1, Len(s))

\* s.trim()
Trim(s) ==
    IF \A k \in 1..Len(s) : s[k] \in WhiteSpace
    THEN << >>
    ELSE LET first == CHOOSE k \in 1..Len(s) :
                         s[k] \notin WhiteSpace /\ \A j \in 1..(k - 1) : s[j] \in WhiteSpace
             last  == CHOOSE k \in 1..Len(s) :
                         s[k] \notin WhiteSpace /\ \A j \in (k + 1)..Len(s) : s[j] \in WhiteSpace
         IN  SubSeq(s, first, last)

\* s.replace(/\r/g, '')
RemoveCR(s) == SelectSeq(s, LAMBDA c : c # "\r")

\* s.split(c) for a single character: always at least one part
RECURSIVE Split(_, _)
Split(s, c) ==
    LET idx == IndexOf(s, c)
    IN  IF idx = 0 THEN <<s>>
        ELSE <<SubSeq(s, 1, idx - 1)>> \o Split(SubSeq(s, idx + 1, Len(s)), c)

\* String(n) for a natural number n
Digit(d) == <<"0", "1", "2", "3", "4", "5", "6", "7", "8", "9">>[d + 1]

RECURSIVE NumToString(_)
NumToString(n) ==
    IF n < 10 THEN <<Digit(n)>> ELSE NumToString(n \div 10) \o <<Digit(n % 10)>>

\* line.match(/attr="([^"]*)"/): the capture group, or None when there is no match.
\* [^"]* cannot cross a quote, so the leftmost occurrence of attr=" matches iff a
\* closing quote follows it, and a later occurrence cannot match when it does not.
AttrMatch(line, prefix) ==
    LET at == IndexOfStr(line, prefix)
    IN  IF at = 0 THEN None
        ELSE LET rest  == SubSeq(line, at + Len(prefix), Len(line))
                 close == IndexOf(rest, "\"")
             IN  IF close = 0 THEN None ELSE Some(SubSeq(rest, 1, close - 1))

(***************************************************************************)
(* String literals of parseM3U                                             *)
(***************************************************************************)
EXTINF ==
    <<"#", "E", "X", "T", "I", "N", "F", ":">>

TVG_LOGO ==
    <<"t", "v", "g", "-", "l", "o", "g", "o", "=", "\"">>

GROUP_TITLE ==
    <<"g", "r", "o", "u", "p", "-", "t", "i", "t", "l", "e", "=", "\"">>

HTTP ==
    <<"h", "t", "t", "p">>

GENERAL ==
    <<"G", "e", "n", "e", "r", "a", "l">>

CHANNEL_ ==
    <<"C", "h", "a", "n", "n", "e", "l", " ">>

(***************************************************************************)
(* Sample playlist lines: the inputs of parseM3U are texts of at most      *)
(* MaxLines of these joined by line feeds.  LineHeader is a directive      *)
(* followed by a blank line, LineGarbage two lines that fail the URL test  *)
(* (no '.', ':' or 'http'; too short once trimmed).                        *)
(***************************************************************************)
LineHeader ==
    <<" ", "#", "E", "X", "T", "M", "3", "U", " ", "u", "r", "l", "-", "t", "v", "g", "=", "\"",
      "h", "t", "t", "p", ":", "/", "/", "x", ".", "y", "\"", "\n", " ", "\t">>

LineInfoCommas ==
    <<"#", "E", "X", "T", "I", "N", "F", ":", "-", "1", " ", "g", "r", "o", "u", "p", "-", "t",
      "i", "t", "l", "e", "=", "\"", "N", "e", "w", "s", "\"", " ", "t", "v", "g", "-", "l",
      "o", "g", "o", "=", "\"", "h", "t", "t", "p", ":", "/", "/", "x", "/", "l", "o", "g", "o",
      ".", "p", "n", "g", "\"", ",", "C", "h", "a", "n", "n", "e", "l", ",", "W", "i", "t", "h",
      ",", "C", "o", "m", "m", "a", "s">>

LineInfoBare ==
    <<"#", "E", "X", "T", "I", "N", "F", ":", "-", "1">>

LineInfoEmpty ==
    <<"#", "E", "X", "T", "I", "N", "F", ":", "0", " ", "g", "r", "o", "u", "p", "-", "t", "i",
      "t", "l", "e", "=", "\"", "\"", ",">>

LineInfoTail ==
    <<"#", "E", "X", "T", "I", "N", "F", ":", "-", "1", " ", "t", "v", "g", "-", "l", "o", "g",
      "o", "=", "\"", "l", ".", "p", "n", "g", "\"", ",", " ", "T", "w", "o", " ", "g", "r",
      "o", "u", "p", "-", "t", "i", "t", "l", "e", "=", "\"", "K", "i", "d", "s", "\"">>

LineUrlA ==
    <<"h", "t", "t", "p", ":", "/", "/", "e", "x", "a", "m", "p", "l", "e", ".", "c", "o", "m",
      "/", "a", ".", "m", "3", "u", "8">>

LineUrlAbc ==
    <<"h", "t", "t", "p", ":", "/", "/", "c", "d", "n", ".", "e", "x", "a", "m", "p", "l", "e",
      ".", "c", "o", "m", "/", "s", "t", "r", "e", "a", "m", "s", "/", "a", "b", "c", "1", "2",
      "3", ".", "m", "3", "u", "8">>

LineUrlToken ==
    <<"h", "t", "t", "p", ":", "/", "/", "x", "/", "0", "1", "2", "3", "4", "5", "6", "7", "8",
      "9", "a", "b", "c", "d", "e", "f", "g", "h", "i", "j", "k", ".", "t", "s", "\r">>

LineUrlTwenty ==
    <<"h", ":", "/", "0", "1", "2", "3", "4", "5", "6", "7", "8", "9", "a", "b", "c", "d", "e",
      "f", "g", "h", "i", "j", ".", "a", ".", "b">>

LineUrlDir ==
    <<" ", " ", "h", "t", "t", "p", ":", "/", "/", "x", "/", "l", "i", "v", "e", "/", " ">>

LineUrlDot ==
    <<"x", "/", ".", "m", "3", "u", "8">>

LineGarbage ==
    <<"g", "a", "r", "b", "a", "g", "e", "\n", " ", " ", "a", ".", "b", " ">>

LinePool ==
    {LineHeader, LineInfoCommas, LineInfoBare, LineInfoEmpty, LineInfoTail,
     LineUrlA, LineUrlAbc, LineUrlToken, LineUrlTwenty, LineUrlDir, LineUrlDot,
     LineGarbage}

MaxLines == 3

RECURSIVE Join(_)
Join(ls) ==
    IF Len(ls) = 0 THEN << >>
    ELSE IF Len(ls) = 1 THEN ls[1]
    ELSE ls[1] \o <<"\n">> \o Join(Tail(ls))

Texts == {Join(ls) : ls \in UNION {[1..n -> LinePool] : n \in 0..MaxLines}}

\* The values Math.random().toString(36).substr(2, 9) can produce: nothing makes two
\* draws differ.
RandomIds == {"id_a", "id_b"}

(***************************************************************************)
(* State of the functions a specification does not run                     *)
(***************************************************************************)
ParseIdle ==
    /\ content = None
    /\ lines = << >>
    /\ i = 0
    /\ currentName = None
    /\ currentGroup = None
    /\ currentLogo = None
    /\ playlist = << >>
    /\ pc = "idle"

FindIdle ==
    /\ channelName = None
    /\ epgMap = << >>
    /\ program = None
    /\ findPc = "idle"

FetchIdle ==
    /\ fetchPc = "idle"
    /\ requests = 0
    /\ error = None
    /\ htmlContent = None
    /\ rows = << >>
    /\ rowIdx = 0
    /\ fetchedMap = << >>
    /\ fetchResult = None

NormIdle ==
    /\ normName = None
    /\ normOnce = None
    /\ normTwice = None
    /\ otherName = None
    /\ otherOnce = None
    /\ normPc = "idle"

\* the App before it is mounted: the initial values of its useState hooks
AppIdle ==
    /\ channels = << >>
    /\ currentIdx = 0
    /\ powerOn = TRUE
    /\ showChannelList = FALSE
    /\ decoderStatus = "idle"
    /\ showBanner = FALSE
    /\ fetches = << >>
    /\ timers = << >>

(***************************************************************************)
(* parseM3U                                                                *)
(***************************************************************************)
\* the URL test without its length condition
LooksLikeUrlAnyLength(line) ==
    Includes(line, HTTP) \/ Includes(line, <<".">>) \/ Includes(line, <<":">>)

\* the test that a non-directive line is taken as a URL
LooksLikeUrl(line) ==
    Len(line) > 5 /\ (Includes(line, HTTP) \/ Includes(line, <<".">>) \/ Includes(line, <<":">>))

\* currentName taken without trimming
ExtinfNameNoTrim(line, name) ==
    LET info      == Substring(line, 8)
        lastComma == LastIndexOf(info, ",")
    IN  IF lastComma # 0 THEN Some(Substring(info, lastComma)) ELSE name

\* currentName taken after the first comma
ExtinfNameFirstComma(line, name) ==
    LET info       == Substring(line, 8)
        firstComma == IndexOf(info, ",")
    IN  IF firstComma # 0 THEN Some(Trim(Substring(info, firstComma))) ELSE name

\* currentName after an #EXTINF: line
ExtinfName(line, name) ==
    LET info      == Substring(line, 8)
        lastComma == LastIndexOf(info, ",")
    IN  IF lastComma # 0 THEN Some(Trim(Substring(info, lastComma))) ELSE name

\* currentLogo after an #EXTINF: line
ExtinfLogo(line, logo) ==
    LET logoMatch == AttrMatch(line, TVG_LOGO)
    IN  IF logoMatch # None THEN logoMatch ELSE logo

\* currentGroup after an #EXTINF: line
ExtinfGroup(line, group) ==
    LET groupMatch == AttrMatch(line, GROUP_TITLE)
    IN  IF groupMatch # None THEN groupMatch ELSE group

\* `Channel ${playlist.length + 1}`
GenericName(n) == CHANNEL_ \o NumToString(n + 1)

\* a string | undefined is truthy when it is defined and not empty
Truthy(opt) == opt # None /\ opt[1] # << >>

\* finalName with the token test off by one
FinalNameTwenty(line, name, n) ==
    IF Truthy(name) THEN name[1]
    ELSE LET parts    == Split(line, "/")
             lastPart == parts[Len(parts)]
             guess    == IF lastPart # << >> THEN Split(lastPart, ".")[1] ELSE GenericName(n)
         IN  IF Len(guess) >= 20 THEN GenericName(n) ELSE guess

\* finalName of a URL line, n channels being in the playlist already
FinalName(line, name, n) ==
    IF Truthy(name) THEN name[1]
    ELSE LET parts    == Split(line, "/")
             lastPart == parts[Len(parts)]
             guess    == IF lastPart # << >> THEN Split(lastPart, ".")[1] ELSE GenericName(n)
         IN  IF Len(guess) > 20 THEN GenericName(n) ELSE guess

\* the channel pushed for a URL line
NewChannel(id, line, name, group, logo, n) ==
    [id    |-> id,
     url   |-> line,
     name  |-> FinalName(line, name, n),
     group |-> IF Truthy(group) THEN group[1] ELSE GENERAL,
     logo  |-> logo]

ParseInit ==
    /\ content \in {None} \cup {Some(t) : t \in Texts}
    /\ lines = << >>
    /\ i = 0
    /\ currentName = None
    /\ currentGroup = None
    /\ currentLogo = None
    /\ playlist = << >>
    /\ pc = "start"
    /\ FindIdle
    /\ FetchIdle
    /\ NormIdle
    /\ AppIdle

\* if (!content) return []
ParseEmpty ==
    /\ pc = "start"
    /\ ~Truthy(content)
    /\ pc' = "done"
    /\ UNCHANGED <<content, lines, i, currentName, currentGroup, currentLogo, playlist>>
    /\ UNCHANGED <<findVars, fetchVars, normVars, appVars>>

\* const lines = content.replace(/\r/g, '').split('\n')
ParseSplit ==
    /\ pc = "start"
    /\ Truthy(content)
    /\ lines' = Split(RemoveCR(content[1]), "\n")
    /\ pc' = "loop"
    /\ UNCHANGED <<content, i, currentName, currentGroup, currentLogo, playlist>>
    /\ UNCHANGED <<findVars, fetchVars, normVars, appVars>>

\* the line the loop is at
CurLine == Trim(lines[i + 1])

InLoop == pc = "loop" /\ i < Len(lines)

\* after the body: the next line, or return playlist when the loop ends
AfterLine == IF i + 1 < Len(lines) THEN "loop" ELSE "done"

\* if (!line) continue
ParseBlank ==
    /\ InLoop
    /\ CurLine = << >>
    /\ i' = i + 1
    /\ UNCHANGED <<content, lines, currentName, currentGroup, currentLogo, playlist>>
    /\ pc' = AfterLine
    /\ UNCHANGED <<findVars, fetchVars, normVars, appVars>>

\* a #EXTINF: line sets the pending metadata it carries
ParseExtinf ==
    /\ InLoop
    /\ CurLine # << >>
    /\ StartsWith(CurLine, EXTINF)
    /\ currentName' = ExtinfName(CurLine, currentName)
    /\ currentLogo' = ExtinfLogo(CurLine, currentLogo)
    /\ currentGroup' = ExtinfGroup(CurLine, currentGroup)
    /\ i' = i + 1
    /\ UNCHANGED <<content, lines, playlist>>
    /\ pc' = AfterLine
    /\ UNCHANGED <<findVars, fetchVars, normVars, appVars>>

\* any other # line is ignored
ParseDirective ==
    /\ InLoop
    /\ CurLine # << >>
    /\ ~StartsWith(CurLine, EXTINF)
    /\ StartsWith(CurLine, <<"#">>)
    /\ i' = i + 1
    /\ UNCHANGED <<content, lines, currentName, currentGroup, currentLogo, playlist>>
    /\ pc' = AfterLine
    /\ UNCHANGED <<findVars, fetchVars, normVars, appVars>>

\* a URL line pushes a channel, and the pending metadata is kept for the next line
ParseUrlKeepsMetadata ==
    /\ InLoop
    /\ CurLine # << >>
    /\ ~StartsWith(CurLine, <<"#">>)
    /\ LooksLikeUrl(CurLine)
    /\ \E id \in RandomIds :
         playlist' = Append(playlist,
                            NewChannel(id, CurLine, currentName, currentGroup, currentLogo,
                                       Len(playlist)))
    /\ i' = i + 1
    /\ UNCHANGED <<content, lines, currentName, currentGroup, currentLogo>>
    /\ pc' = AfterLine
    /\ UNCHANGED <<findVars, fetchVars, normVars, appVars>>

\* a URL line pushes a channel and resets the pending metadata
ParseUrl ==
    /\ InLoop
    /\ CurLine # << >>
    /\ ~StartsWith(CurLine, <<"#">>)
    /\ LooksLikeUrl(CurLine)
    /\ \E id \in RandomIds :
         playlist' = Append(playlist,
                            NewChannel(id, CurLine, currentName, currentGroup, currentLogo,
                                       Len(playlist)))
    /\ currentName' = None
    /\ currentGroup' = None
    /\ currentLogo' = None
    /\ i' = i + 1
    /\ UNCHANGED <<content, lines>>
    /\ pc' = AfterLine
    /\ UNCHANGED <<findVars, fetchVars, normVars, appVars>>

\* a line that is neither a directive nor URL-looking is dropped
ParseGarbage ==
    /\ InLoop
    /\ CurLine # << >>
    /\ ~StartsWith(CurLine, <<"#">>)
    /\ ~LooksLikeUrl(CurLine)
    /\ i' = i + 1
    /\ UNCHANGED <<content, lines, currentName, currentGroup, currentLogo, playlist>>
    /\ pc' = AfterLine
    /\ UNCHANGED <<findVars, fetchVars, normVars, appVars>>

ParseNext ==
    \/ ParseEmpty
    \/ ParseSplit
    \/ ParseBlank
    \/ ParseExtinf
    \/ ParseDirective
    \/ ParseUrl
    \/ ParseGarbage

SpecParse == ParseInit /\ [][ParseNext]_vars

(***************************************************************************)
(* Properties of parseM3U.  They are stated on the lines of the input and  *)
(* the returned playlist, not on the loop's intermediate values.           *)
(***************************************************************************)
Done == pc = "done"

HasChar(s, c) == \E k \in 1..Len(s) : s[k] = c

\* a trimmed line that is not blank, is not a directive and looks like a URL
IsUrlText(t) ==
    /\ t # << >>
    /\ t[1] # "#"
    /\ Len(t) >= 6
    /\ (HasChar(t, ".") \/ HasChar(t, ":") \/ Includes(t, HTTP))

IsUrlLine(l) == IsUrlText(Trim(l))

IsExtinfLine(l) == StartsWith(Trim(l), EXTINF)

Max(S) == CHOOSE m \in S : \A n \in S : n <= m

Min(S) == CHOOSE m \in S : \A n \in S : m <= n

\* The blocks of the lines from line k on: one block per URL-looking line, with the
\* index of that line (url) and the indices of the #EXTINF: lines between the
\* previous URL-looking line and it (extinfs, those collected so far being pending).
RECURSIVE BlocksFrom(_, _)
BlocksFrom(k, pending) ==
    IF k > Len(lines) THEN << >>
    ELSE LET t == Trim(lines[k])
         IN  IF IsUrlText(t)
             THEN <<[url |-> k, extinfs |-> pending]>> \o BlocksFrom(k + 1, {})
             ELSE IF StartsWith(t, EXTINF)
                  THEN BlocksFrom(k + 1, pending \cup {k})
                  ELSE BlocksFrom(k + 1, pending)

Blocks == BlocksFrom(1, {})

\* the last #EXTINF: line of a block, trimmed
LastExtinf(block) == Trim(lines[Max(block.extinfs)])

HasComma(s) == HasChar(s, ",")

\* the trimmed text after the last comma of s
AfterLastComma(s) ==
    LET k == Max({p \in 1..Len(s) : s[p] = ","})
    IN  Trim(SubSeq(s, k + 1, Len(s)))

\* the name derived from a URL for the n-th channel
DerivedName(url, n) ==
    LET cut  == Max({0} \cup {p \in 1..Len(url) : url[p] = "/"})
        seg  == SubSeq(url, cut + 1, Len(url))
        dots == {p \in 1..Len(seg) : seg[p] = "."}
        stem == IF dots = {} THEN seg ELSE SubSeq(seg, 1, Min(dots) - 1)
    IN  IF seg = << >> \/ Len(stem) > 20 THEN CHANNEL_ \o NumToString(n) ELSE stem

NameCommas ==
    <<"C", "o", "m", "m", "a", "s">>

NameChannelWithCommas ==
    <<"C", "h", "a", "n", "n", "e", "l", ",", "W", "i", "t", "h", ",", "C", "o", "m", "m", "a",
      "s">>

GroupNews ==
    <<"N", "e", "w", "s">>

LogoX ==
    <<"h", "t", "t", "p", ":", "/", "/", "x", "/", "l", "o", "g", "o", ".", "p", "n", "g">>

NameAbc123 ==
    <<"a", "b", "c", "1", "2", "3">>

\* C1: parseM3U returns exactly one channel per non-blank line that does not start
\* with '#' and looks like a URL, in the order of those lines; empty or undefined
\* input, and input without such a line, gives an empty list.
C1_OneChannelPerUrlLine ==
    Done =>
        LET blocks == Blocks
        IN  /\ Len(playlist) = Len(blocks)
            /\ \A j \in 1..Len(blocks) : playlist[j].url = Trim(lines[blocks[j].url])
            /\ ~Truthy(content) => playlist = << >>

C1_Witness ==
    /\ Done
    /\ Len(playlist) = 2
    /\ playlist[1].url # playlist[2].url
    /\ \E k \in 1..Len(lines) : Trim(lines[k]) = << >>
    /\ \E k \in 1..Len(lines) : Trim(lines[k]) # << >> /\ ~IsUrlLine(lines[k])

\* C2 as claimed: when an #EXTINF: line with a comma is the last metadata line before
\* a URL line, the channel's name is the trimmed text after its last comma, and group
\* and logo are the values of group-title="..." and tvg-logo="..." of that line (a
\* group-title that is present with an empty value is read as no group-title).
C2_Original ==
    Done =>
        LET blocks == Blocks
        IN  \A j \in 1..Len(blocks) :
                (j <= Len(playlist) /\ blocks[j].extinfs # {}) =>
                    LET last  == LastExtinf(blocks[j])
                        group == AttrMatch(last, GROUP_TITLE)
                        logo  == AttrMatch(last, TVG_LOGO)
                    IN  HasComma(last) =>
                            /\ playlist[j].name = AfterLastComma(last)
                            /\ Truthy(group) => playlist[j].group = group[1]
                            /\ logo # None => playlist[j].logo = logo

\* C2 (amended): when an #EXTINF: line with a comma is the last metadata line before
\* a URL line, the channel's name is the trimmed text after its last comma when that
\* text is not empty; its group is the value of group-title="..." of that line when
\* that value is not empty; its logo is the value of tvg-logo="..." of that line; and
\* the group is "General" when no #EXTINF: line of the block has a non-empty
\* group-title.
C2_NameAfterLastComma ==
    Done =>
        LET blocks == Blocks
        IN  \A j \in 1..Len(blocks) :
                (j <= Len(playlist) /\ blocks[j].extinfs # {}) =>
                    LET last  == LastExtinf(blocks[j])
                        group == AttrMatch(last, GROUP_TITLE)
                        logo  == AttrMatch(last, TVG_LOGO)
                    IN  HasComma(last) =>
                            /\ AfterLastComma(last) # << >> =>
                                   playlist[j].name = AfterLastComma(last)
                            /\ Truthy(group) => playlist[j].group = group[1]
                            /\ logo # None => playlist[j].logo = logo
                            /\ (\A m \in blocks[j].extinfs :
                                    ~Truthy(AttrMatch(Trim(lines[m]), GROUP_TITLE))) =>
                                   playlist[j].group = GENERAL

\* an #EXTINF: line whose group-title follows the name, then a URL line
C2_Witness ==
    /\ Done
    /\ Len(lines) = 2
    /\ Trim(lines[1]) = LineInfoTail
    /\ Len(playlist) = 1
    /\ playlist[1].group # GENERAL
    /\ playlist[1].logo # None

\* C3 as claimed: the #EXTINF: line ending in ,Channel,With,Commas followed by
\* http://example.com/a.m3u8 gives one channel named "Channel,With,Commas" with
\* group "News" and logo "http://x/logo.png".
C3_Original ==
    (Done /\ content = Some(Join(<<LineInfoCommas, LineUrlA>>))) =>
        /\ Len(playlist) = 1
        /\ playlist[1].name = NameChannelWithCommas
        /\ playlist[1].group = GroupNews
        /\ playlist[1].logo = Some(LogoX)

\* C3 (amended): that input gives one channel named "Commas" (the text after the
\* last comma), with group "News" and logo "http://x/logo.png".
C3_ExampleCommas ==
    (Done /\ content = Some(Join(<<LineInfoCommas, LineUrlA>>))) =>
        /\ Len(playlist) = 1
        /\ playlist[1].name = NameCommas
        /\ playlist[1].url = LineUrlA
        /\ playlist[1].group = GroupNews
        /\ playlist[1].logo = Some(LogoX)

C3_Witness ==
    /\ Done
    /\ content = Some(Join(<<LineInfoCommas, LineUrlA>>))
    /\ Len(playlist) = 1

\* C4: a URL line with no pending name gives a channel named by the URL's last path
\* segment up to its first '.', when that is at most 20 characters; when the last
\* segment is empty or the derived name is longer than 20 characters the name is
\* "Channel n", n being the 1-based position of the channel in the result.
C4_DerivedName ==
    [][(pc = "loop" /\ Len(playlist') = Len(playlist) + 1 /\ ~Truthy(currentName)) =>
           playlist'[Len(playlist')].name = DerivedName(Trim(lines[i + 1]), Len(playlist'))]_vars

\* abc123.m3u8 gives "abc123"; a 21-character token and an empty last segment give
\* "Channel n"; a 20-character segment is kept
C4_Witness ==
    /\ Done
    /\ Len(playlist) = 3
    /\ playlist[1].url = LineUrlAbc /\ playlist[1].name = NameAbc123
    /\ playlist[2].url = Trim(LineUrlDir) /\ playlist[2].name = CHANNEL_ \o <<"2">>
    /\ playlist[3].url = LineUrlTwenty /\ Len(playlist[3].name) = 20

\* C5: after a channel is emitted the pending name, group and logo are cleared: a URL
\* line with no #EXTINF: line between it and the previously emitted URL line gets a
\* derived or generic name, group "General" and no logo.
C5_MetadataReset ==
    /\ Done =>
          LET blocks == Blocks
          IN  \A j \in 2..Len(blocks) :
                  (j <= Len(playlist) /\ blocks[j].extinfs = {}) =>
                      /\ playlist[j].name = DerivedName(playlist[j].url, j)
                      /\ playlist[j].group = GENERAL
                      /\ playlist[j].logo = None
    /\ (i > 0 /\ IsUrlLine(lines[i])) =>
          currentName = None /\ currentGroup = None /\ currentLogo = None

\* a block with name, group and logo, then two URL lines
C5_Witness ==
    /\ Done
    /\ Len(lines) = 3
    /\ Len(playlist) = 2
    /\ IsExtinfLine(lines[1])
    /\ playlist[1].name = NameCommas
    /\ playlist[1].group = GroupNews
    /\ playlist[1].logo = Some(LogoX)
    /\ playlist[2].group = GENERAL

\* C6: when two or more #EXTINF: lines occur with no URL line between them, the
\* channel emitted by the next URL line carries only what the last of them gives:
\* its name if it has one (else the derived name), its group-title (else "General"),
\* its tvg-logo (else none).
C6_LaterOverwrites ==
    Done =>
        LET blocks == Blocks
        IN  \A j \in 1..Len(blocks) :
                (j <= Len(playlist) /\ Cardinality(blocks[j].extinfs) >= 2) =>
                    LET last  == LastExtinf(blocks[j])
                        group == AttrMatch(last, GROUP_TITLE)
                    IN  /\ playlist[j].name =
                               IF HasComma(last) /\ AfterLastComma(last) # << >>
                               THEN AfterLastComma(last)
                               ELSE DerivedName(playlist[j].url, j)
                        /\ playlist[j].group = IF Truthy(group) THEN group[1] ELSE GENERAL
                        /\ playlist[j].logo = AttrMatch(last, TVG_LOGO)

\* C7: the channels of one parseM3U call have pairwise distinct ids.
C7_UniqueIds ==
    \A j, k \in 1..Len(playlist) : j # k => playlist[j].id # playlist[k].id

\* C19: every channel emitted by parseM3U has a non-empty name, also for a URL line
\* whose last path segment starts with '.' and after an #EXTINF: line that ends with
\* a comma.
C19_NonEmptyNames ==
    \A j \in 1..Len(playlist) : playlist[j].name # << >>

(***************************************************************************)
(* normalizeChannelName                                                    *)
(*                                                                         *)
(* Characters outside ASCII are named tokens: "E_ACUTE" and "e_acute" are  *)
(* U+00C9 and U+00E9, "U+0301" is the combining acute accent.              *)
(***************************************************************************)
UpperLetters ==
    <<"A", "B", "C", "D", "E", "F", "G", "H", "I", "J", "K", "L", "M",
      "N", "O", "P", "Q", "R", "S", "T", "U", "V", "W", "X", "Y", "Z">>

LowerLetters ==
    <<"a", "b", "c", "d", "e", "f", "g", "h", "i", "j", "k", "l", "m",
      "n", "o", "p", "q", "r", "s", "t", "u", "v", "w", "x", "y", "z">>

Digits == {"0", "1", "2", "3", "4", "5", "6", "7", "8", "9"}

\* U+0300..U+036F, as far as the alphabet has them
CombiningMarks == {"U+0301"}

\* c.toLowerCase() of one character
LowerChar(c) ==
    IF \E k \in DOMAIN UpperLetters : UpperLetters[k] = c
    THEN LowerLetters[CHOOSE k \in DOMAIN UpperLetters : UpperLetters[k] = c]
    ELSE IF c = "E_ACUTE" THEN "e_acute" ELSE c

\* s.toLowerCase()
ToLowerCase(s) == [k \in 1..Len(s) |-> LowerChar(s[k])]

\* c.normalize("NFD") of one character
DecomposeChar(c) ==
    IF c = "e_acute" THEN <<"e", "U+0301">>
    ELSE IF c = "E_ACUTE" THEN <<"E", "U+0301">>
    ELSE <<c>>

\* s.normalize("NFD")
RECURSIVE NormalizeNFD(_)
NormalizeNFD(s) ==
    IF s = << >> THEN << >> ELSE DecomposeChar(Head(s)) \o NormalizeNFD(Tail(s))

\* the last replace without its g flag: only the first symbol is removed
normalizeChannelNameFirstSymbol(name) ==
    IF ~Truthy(name) THEN << >>
    ELSE LET lower    == ToLowerCase(name[1])
             nfd      == NormalizeNFD(lower)
             noMarks  == SelectSeq(nfd, LAMBDA c : c \notin CombiningMarks)
             Symbol(k) == noMarks[k] \notin Range(LowerLetters) \cup Digits
         IN  IF \E k \in 1..Len(noMarks) : Symbol(k)
             THEN LET at == CHOOSE k \in 1..Len(noMarks) :
                                Symbol(k) /\ \A j \in 1..(k - 1) : ~Symbol(j)
                  IN  SubSeq(noMarks, 1, at - 1) \o SubSeq(noMarks, at + 1, Len(noMarks))
             ELSE noMarks

\* without the decomposition: an accented letter is removed with its accent
normalizeChannelNameNoNFD(name) ==
    IF ~Truthy(name) THEN << >>
    ELSE LET lower    == ToLowerCase(name[1])
             noMarks  == SelectSeq(lower, LAMBDA c : c \notin CombiningMarks)
         IN  SelectSeq(noMarks, LAMBDA c : c \in Range(LowerLetters) \cup Digits)

\* name is a string | undefined
normalizeChannelName(name) ==
    IF ~Truthy(name) THEN << >>
    ELSE LET lower    == ToLowerCase(name[1])
             nfd      == NormalizeNFD(lower)
             noMarks  == SelectSeq(nfd, LAMBDA c : c \notin CombiningMarks)
         IN  SelectSeq(noMarks, LAMBDA c : c \in Range(LowerLetters) \cup Digits)

(***************************************************************************)
(* normalizeChannelName applied to a name, to its own result, and to a     *)
(* second name that differs from the first by one edit of letter case, of  *)
(* a diacritic mark, or of a space or punctuation character.               *)
(***************************************************************************)
NormAlphabet == {"a", "E", "e_acute", "E_ACUTE", "U+0301", " ", "!", "7"}

MaxNameLen == 3

\* the names normalized: undefined, and the strings of at most MaxNameLen characters
Names == {None} \cup {Some(x) : x \in UNION {[1..n -> NormAlphabet] : n \in 0..MaxNameLen}}

\* the other case of a letter
SwapCase(c) ==
    IF \E k \in DOMAIN UpperLetters : UpperLetters[k] = c
    THEN LowerLetters[CHOOSE k \in DOMAIN UpperLetters : UpperLetters[k] = c]
    ELSE IF \E k \in DOMAIN LowerLetters : LowerLetters[k] = c
    THEN UpperLetters[CHOOSE k \in DOMAIN LowerLetters : LowerLetters[k] = c]
    ELSE IF c = "E_ACUTE" THEN "e_acute"
    ELSE IF c = "e_acute" THEN "E_ACUTE"
    ELSE c

\* the same letter with the acute accent put on or taken off
SwapAccent(c) ==
    IF c = "e" THEN "e_acute"
    ELSE IF c = "E" THEN "E_ACUTE"
    ELSE IF c = "e_acute" THEN "e"
    ELSE IF c = "E_ACUTE" THEN "E"
    ELSE c

Symbols == {" ", "!", "-", "."}

RemoveAt(x, k) == SubSeq(x, 1, k - 1) \o SubSeq(x, k + 1, Len(x))

InsertAt(x, k, c) == SubSeq(x, 1, k) \o <<c>> \o SubSeq(x, k + 1, Len(x))

\* the names that differ from x by one edit of case, diacritic mark, space or
\* punctuation
Variants(x) ==
    ({[x EXCEPT ![k] = SwapCase(x[k])] : k \in 1..Len(x)}
     \cup {[x EXCEPT ![k] = SwapAccent(x[k])] : k \in 1..Len(x)}
     \cup {RemoveAt(x, k) : k \in {j \in 1..Len(x) : x[j] \in CombiningMarks \cup Symbols}}
     \cup {InsertAt(x, k, c) : k \in 0..Len(x), c \in CombiningMarks \cup Symbols})
    \ {x}

NormInit ==
    /\ normName \in Names
    /\ normOnce = None
    /\ normTwice = None
    /\ otherName = None
    /\ otherOnce = None
    /\ normPc = "start"
    /\ ParseIdle
    /\ FindIdle
    /\ FetchIdle
    /\ AppIdle

\* normalizeChannelName(name)
NormalizeName ==
    /\ normPc = "start"
    /\ normOnce' = Some(normalizeChannelName(normName))
    /\ normPc' = "once"
    /\ UNCHANGED <<normName, normTwice, otherName, otherOnce>>
    /\ UNCHANGED <<parseVars, findVars, fetchVars, appVars>>

\* normalizeChannelName applied to its own result
NormalizeAgain ==
    /\ normPc = "once"
    /\ normTwice' = Some(normalizeChannelName(normOnce))
    /\ normPc' = "twice"
    /\ UNCHANGED <<normName, normOnce, otherName, otherOnce>>
    /\ UNCHANGED <<parseVars, findVars, fetchVars, appVars>>

\* normalizeChannelName applied to a name one edit away from the first
NormalizeOther ==
    /\ normPc = "twice"
    /\ normName # None
    /\ \E y \in Variants(normName[1]) :
         /\ otherName' = Some(y)
         /\ otherOnce' = Some(normalizeChannelName(Some(y)))
    /\ normPc' = "other"
    /\ UNCHANGED <<normName, normOnce, normTwice>>
    /\ UNCHANGED <<parseVars, findVars, fetchVars, appVars>>

NormNext ==
    \/ NormalizeName
    \/ NormalizeAgain
    \/ NormalizeOther

SpecNorm == NormInit /\ [][NormNext]_vars

(***************************************************************************)
(* Properties of normalizeChannelName                                      *)
(***************************************************************************)
\* C12: normalizeChannelName is idempotent: applied to its own result it returns
\* that result.
C12_Idempotent ==
    normTwice # None => normTwice = normOnce

\* an accented capital and a space are normalized away, and the second application
\* changes nothing
C12_Witness ==
    /\ normPc = "twice"
    /\ normName = Some(<<"E_ACUTE", " ", "7">>)
    /\ normOnce = Some(<<"e", "7">>)
    /\ normTwice = Some(<<"e", "7">>)

AsciiLowerOrDigit(c) == (\E k \in DOMAIN LowerLetters : LowerLetters[k] = c) \/ c \in Digits

\* C13: the result holds only lowercase ASCII letters and digits; it is empty for
\* empty or undefined input; and two names that differ only in letter case, a
\* diacritic mark, a space or a punctuation character have the same result.
C13_Canonical ==
    /\ normOnce # None => \A k \in 1..Len(normOnce[1]) : AsciiLowerOrDigit(normOnce[1][k])
    /\ otherOnce # None => \A k \in 1..Len(otherOnce[1]) : AsciiLowerOrDigit(otherOnce[1][k])
    /\ (normOnce # None /\ ~Truthy(normName)) => normOnce = Some(<< >>)
    /\ otherOnce # None => otherOnce = normOnce

\* "aÉ" and "ae" give "ae"
C13_Witness ==
    /\ normPc = "other"
    /\ normName = Some(<<"a", "E_ACUTE">>)
    /\ otherName = Some(<<"a", "E">>)
    /\ normOnce = Some(<<"a", "e">>)
    /\ otherOnce = Some(<<"a", "e">>)

(***************************************************************************)
(* An object used as a map (Record<string, string>): the sequence of its   *)
(* entries in the order Object.keys gives them.                            *)
(***************************************************************************)
ObjectKeys(obj) == [k \in 1..Len(obj) |-> obj[k].key]

\* obj[key]: the value, or None (undefined)
ObjectGet(obj, key) ==
    IF \E k \in 1..Len(obj) : obj[k].key = key
    THEN Some(obj[CHOOSE k \in 1..Len(obj) : obj[k].key = key].value)
    ELSE None

(***************************************************************************)
(* findProgramForChannel                                                   *)
(***************************************************************************)
\* Priority A with a threshold of 2
ContainsWebNameShort(searchKey, key) == Includes(searchKey, key) /\ Len(key) > 2

\* Priority A: the playlist name contains the web name
ContainsWebName(searchKey, key) == Includes(searchKey, key) /\ Len(key) > 3

\* Priority B with a threshold of 2
ContainedInWebNameShort(searchKey, key) == Includes(key, searchKey) /\ Len(searchKey) > 2

\* Priority B: the web name contains the playlist name
ContainedInWebName(searchKey, key) == Includes(key, searchKey) /\ Len(searchKey) > 3

\* for (const key of keys) if (test) return epgMap[key]: the entry of the first key,
\* in the order of keys, among those that pass the test (hits), or None
FirstMatch(obj, hits) ==
    IF hits # {}
    THEN Some(obj[CHOOSE k \in hits : \A j \in 1..(k - 1) : j \notin hits].value)
    ELSE None

\* the fuzzy match with the two directions tried in the other order
FuzzyMatchWebNameFirst(searchKey, obj) ==
    LET keys == ObjectKeys(obj)
        a == FirstMatch(obj, {k \in 1..Len(keys) : ContainsWebName(searchKey, keys[k])})
        b == FirstMatch(obj, {k \in 1..Len(keys) : ContainedInWebName(searchKey, keys[k])})
    IN  IF b # None THEN b ELSE a

\* 2. Fuzzy match: priority A, then priority B, else null
FuzzyMatch(searchKey, obj) ==
    LET keys == ObjectKeys(obj)
        a == FirstMatch(obj, {k \in 1..Len(keys) : ContainsWebName(searchKey, keys[k])})
        b == FirstMatch(obj, {k \in 1..Len(keys) : ContainedInWebName(searchKey, keys[k])})
    IN  IF a # None THEN a ELSE b

\* the result is a string | null: Some(title) or None
findProgramForChannel(name, obj) ==
    IF ~Truthy(name) THEN None
    ELSE LET searchKey == normalizeChannelName(name)
         IN  IF searchKey = << >> THEN None
             ELSE IF Truthy(ObjectGet(obj, searchKey)) THEN ObjectGet(obj, searchKey)
             ELSE FuzzyMatch(searchKey, obj)

NameAmericaTvHd ==
    <<"A", "m", "e_acute", "r", "i", "c", "a", " ", "T", "V", " ", "H", "D">>

NameAmer ==
    <<"A", "M", "E_ACUTE", "R">>

NameEBang ==
    <<"E", "!">>

NamePunct ==
    <<"!", "?">>

NameTyc ==
    <<"T", "y", "C">>

NameTycSports ==
    <<"T", "y", "C", " ", "S", "p", "o", "r", "t", "s">>

NameTelefe ==
    <<"T", "e", "l", "e", "f", "e">>

KeyAmericaTv ==
    <<"a", "m", "e", "r", "i", "c", "a", "t", "v">>

KeyAmericaTvHd ==
    <<"a", "m", "e", "r", "i", "c", "a", "t", "v", "h", "d">>

KeyAmericaTvHdPlus ==
    <<"a", "m", "e", "r", "i", "c", "a", "t", "v", "h", "d", "p", "l", "u", "s">>

KeyAmer ==
    <<"a", "m", "e", "r">>

KeyTelefe ==
    <<"t", "e", "l", "e", "f", "e">>

KeyTycSports ==
    <<"t", "y", "c", "s", "p", "o", "r", "t", "s">>

KeyTyc ==
    <<"t", "y", "c">>

KeyE ==
    <<"e">>

\* the channel names looked up: undefined, empty, and sample names
NamePool ==
    {None, Some(<< >>), Some(NameAmericaTvHd), Some(NameAmer), Some(NameEBang),
     Some(NamePunct), Some(NameTyc), Some(NameTycSports), Some(NameTelefe)}

\* the keys of the sample mappings
KeyPool ==
    {KeyAmericaTv, KeyAmericaTvHd, KeyAmericaTvHdPlus, KeyAmer, KeyTelefe, KeyTycSports,
     KeyTyc, KeyE}

MaxKeys == 2

\* the program title stored under a key: titles are never empty (fetchGatoEPG stores
\* a title only when it is truthy), and differ from key to key
TitleOf(key) == <<"@">> \o key

\* the mappings of at most MaxKeys entries, in every key order
MapPool ==
    {[k \in 1..Len(ks) |-> [key |-> ks[k], value |-> TitleOf(ks[k])]] :
        ks \in {s \in UNION {[1..n -> KeyPool] : n \in 0..MaxKeys} :
                   \A a, b \in 1..Len(s) : a # b => s[a] # s[b]}}

FindInit ==
    /\ channelName \in NamePool
    /\ epgMap \in MapPool
    /\ program = None
    /\ findPc = "call"
    /\ ParseIdle
    /\ FetchIdle
    /\ NormIdle
    /\ AppIdle

FindProgram ==
    /\ findPc = "call"
    /\ program' = findProgramForChannel(channelName, epgMap)
    /\ findPc' = "returned"
    /\ UNCHANGED <<channelName, epgMap>>
    /\ UNCHANGED <<parseVars, fetchVars, normVars, appVars>>

FindNext == FindProgram

SpecFind == FindInit /\ [][FindNext]_vars

(***************************************************************************)
(* Properties of findProgramForChannel                                     *)
(***************************************************************************)
Returned == findPc = "returned"

\* the normalized search key of the call
SearchKey == normalizeChannelName(channelName)

\* the entries whose key is the search key
ExactEntries == {k \in 1..Len(epgMap) : epgMap[k].key = SearchKey}

\* direction A: entries whose key, longer than 3, is contained in the search key
EntriesA ==
    {k \in 1..Len(epgMap) : Includes(SearchKey, epgMap[k].key) /\ Len(epgMap[k].key) >= 4}

\* direction B: entries whose key contains the search key, itself longer than 3
EntriesB ==
    {k \in 1..Len(epgMap) : Includes(epgMap[k].key, SearchKey) /\ Len(SearchKey) >= 4}

\* C8: findProgramForChannel returns on the first hit of a fixed order: null for an
\* empty or undefined name or an empty normalized key; else the exact entry, even if
\* other keys match by containment; else an entry whose key is contained in the
\* search key (A), in preference to any entry whose key contains it (B), whatever the
\* key order of the mapping; else null.
C8_PriorityOrder ==
    Returned =>
        IF ~Truthy(channelName) \/ SearchKey = << >> THEN program = None
        ELSE IF ExactEntries # {} THEN program = Some(epgMap[Min(ExactEntries)].value)
        ELSE IF EntriesA # {} THEN program = Some(epgMap[Min(EntriesA)].value)
        ELSE IF EntriesB # {} THEN program = Some(epgMap[Min(EntriesB)].value)
        ELSE program = None

\* no exact entry, a B entry placed before an A entry: the A entry is returned
C8_Witness ==
    /\ Returned
    /\ ExactEntries = {}
    /\ EntriesA # {} /\ EntriesB # {}
    /\ Min(EntriesB) < Min(EntriesA)
    /\ program = Some(epgMap[Min(EntriesA)].value)

\* C9: containment never matches through a string of 3 characters or fewer: a result
\* that is not the exact entry comes from a key longer than 3 contained in the search
\* key, or from a key containing a search key longer than 3; a name whose normalized
\* form has at most 3 characters resolves only by exact key equality, and "E!"
\* against {"telefe": ...} gives null.
C9_NoShortContainment ==
    Returned =>
        /\ (program # None /\ ExactEntries = {}) =>
               \E k \in EntriesA \cup EntriesB : program = Some(epgMap[k].value)
        /\ (program # None /\ Len(SearchKey) <= 3) =>
               ExactEntries # {} /\ program = Some(epgMap[Min(ExactEntries)].value)
        /\ (channelName = Some(NameEBang) /\ ObjectKeys(epgMap) = <<KeyTelefe>>) =>
               program = None

\* a 3-character search key contained in a longer key, and no match
C9_Witness ==
    /\ Returned
    /\ Len(SearchKey) = 3
    /\ \E k \in 1..Len(epgMap) :
           Includes(epgMap[k].key, SearchKey) /\ epgMap[k].key # SearchKey
    /\ ExactEntries = {}
    /\ program = None

(***************************************************************************)
(* fetchGatoEPG                                                            *)
(*                                                                         *)
(* A row (tr) of the parsed page is what the selectors of the code see of  *)
(* it: imgAlt, the alt of its first img[alt]; link, the text of its first  *)
(* a[href*="/canal/"]; titleText, the text of its first element matching   *)
(* the title selectors; cells, its td elements, each with hasImg (it holds *)
(* an img) and its text.  An absent element is None.                       *)
(***************************************************************************)
\* text.match(/^\d{1,2}:\d{2}$/)
IsTime(s) ==
    /\ Len(s) \in {4, 5}
    /\ s[Len(s) - 2] = ":"
    /\ s[Len(s) - 1] \in Digits /\ s[Len(s)] \in Digits
    /\ \A k \in 1..(Len(s) - 3) : s[k] \in Digits

\* the number a string of digits writes
RECURSIVE StringToNum(_)
StringToNum(s) ==
    IF s = << >> THEN 0
    ELSE 10 * StringToNum(SubSeq(s, 1, Len(s) - 1))
         + (CHOOSE d \in 0..9 : Digit(d) = s[Len(s)])

\* a property key that is an array index: such keys come first in Object.keys, in
\* ascending order (keys of up to 9 digits; the keys of the model are short)
IsArrayIndex(key) ==
    /\ key # << >>
    /\ Len(key) <= 9
    /\ \A k \in 1..Len(key) : key[k] \in Digits
    /\ Len(key) = 1 \/ key[1] # "0"

\* an assignment that leaves an existing entry as it is
ObjectSetKeepsFirst(obj, key, value) ==
    IF \E k \in 1..Len(obj) : obj[k].key = key
    THEN obj
    ELSE Append(obj, [key |-> key, value |-> value])

\* obj[key] = value
ObjectSet(obj, key, value) ==
    IF \E k \in 1..Len(obj) : obj[k].key = key
    THEN [k \in 1..Len(obj) |->
             IF obj[k].key = key THEN [key |-> key, value |-> value] ELSE obj[k]]
    ELSE IF IsArrayIndex(key)
         THEN LET Before(e) == IsArrayIndex(e.key) /\ StringToNum(e.key) < StringToNum(key)
                  NotBefore(e) == ~Before(e)
              IN  SelectSeq(obj, Before) \o <<[key |-> key, value |-> value]>>
                  \o SelectSeq(obj, NotBefore)
         ELSE Append(obj, [key |-> key, value |-> value])

\* 1. the channel name of a row: the alt of its image, else the text of its link
RowChannelName(row) ==
    IF row.imgAlt # None THEN row.imgAlt[1]
    ELSE IF row.link # None THEN Trim(row.link[1])
    ELSE << >>

\* 2. the title by the specific class lookup
TitleByClass(row) ==
    IF row.titleText # None /\ row.titleText[1] # << >> THEN Trim(row.titleText[1]) ELSE << >>

\* the title by the neighbouring cell lookup
TitleByNeighbour(row, name) ==
    LET cells  == row.cells
        Hit(k) == cells[k].hasImg \/ Includes(cells[k].text, name)
    IN  IF \E k \in 1..Len(cells) : Hit(k)
        THEN LET idx == CHOOSE k \in 1..Len(cells) : Hit(k) /\ \A j \in 1..(k - 1) : ~Hit(j)
             IN  IF idx + 1 <= Len(cells)
                 THEN LET text == Trim(cells[idx + 1].text)
                      IN  IF text # << >> /\ Len(text) > 2 /\ ~IsTime(text) THEN text ELSE << >>
                 ELSE << >>
        ELSE << >>

\* the title by the scan of all cells
TitleByScan(row, name) ==
    LET cells  == row.cells
        Txt(k) == Trim(cells[k].text)
        Hit(k) == /\ Len(Txt(k)) > 5
                  /\ ~Includes(Txt(k), name)
                  /\ ~Includes(normalizeChannelName(Some(Txt(k))),
                               normalizeChannelName(Some(name)))
                  /\ ~IsTime(Txt(k))
    IN  IF \E k \in 1..Len(cells) : Hit(k)
        THEN Txt(CHOOSE k \in 1..Len(cells) : Hit(k) /\ \A j \in 1..(k - 1) : ~Hit(j))
        ELSE << >>

\* the program title of a row whose channel name is name
RowProgramTitle(row, name) ==
    IF TitleByClass(row) # << >> THEN TitleByClass(row)
    ELSE IF TitleByNeighbour(row, name) # << >> THEN TitleByNeighbour(row, name)
    ELSE TitleByScan(row, name)

\* the body of rows.forEach without the test of the key
ScrapeRowNoKeyTest(obj, row) ==
    LET name == RowChannelName(row)
    IN  IF name = << >> \/ Len(name) < 2 THEN obj
        ELSE LET programTitle == RowProgramTitle(row, name)
                 key          == normalizeChannelName(Some(name))
             IN  IF programTitle # << >>
                 THEN ObjectSet(obj, key, programTitle)
                 ELSE obj

\* the body of rows.forEach asking for a name of three characters
ScrapeRowMinThree(obj, row) ==
    LET name == RowChannelName(row)
    IN  IF name = << >> \/ Len(name) < 3 THEN obj
        ELSE LET programTitle == RowProgramTitle(row, name)
                 key          == normalizeChannelName(Some(name))
             IN  IF programTitle # << >> /\ key # << >>
                 THEN ObjectSet(obj, key, programTitle)
                 ELSE obj

\* the body of rows.forEach: the map after the row
ScrapeRow(obj, row) ==
    LET name == RowChannelName(row)
    IN  IF name = << >> \/ Len(name) < 2 THEN obj
        ELSE LET programTitle == RowProgramTitle(row, name)
                 key          == normalizeChannelName(Some(name))
             IN  IF programTitle # << >> /\ key # << >>
                 THEN ObjectSet(obj, key, programTitle)
                 ELSE obj

\* where an exception thrown in the body leaves the function
OnThrowUncaught == "rejected"

\* where an exception thrown in the body goes: the body is one try block
OnThrow == "catch"

TextTelefe ==
    <<"T", "e", "l", "e", "f", "e">>

TextTelefeLink ==
    <<" ", "T", "E", "L", "E", "F", "E", " ">>

TextTelenoche ==
    <<"T", "e", "l", "e", "n", "o", "c", "h", "e">>

TextShow ==
    <<" ", "S", "h", "o", "w", " ">>

TextBangs ==
    <<"!", "!">>

TextNews ==
    <<"N", "e", "w", "s">>

TextCanal ==
    <<"C", "a", "n", "a", "l">>

TextAhora ==
    <<"A", "h", "o", "r", "a">>

TextE ==
    <<"E">>

TextTyc ==
    <<"T", "y", "C">>

TextTime1 ==
    <<"2", "0", ":", "3", "0">>

TextTime2 ==
    <<"2", "1", ":", "0", "0">>

TextFutbol ==
    <<"F", "u", "t", "b", "o", "l", " ", "t", "o", "t", "a", "l">>

TextAmerica ==
    <<"A", "m", "e_acute", "r", "i", "c", "a", " ", "T", "V">>

TextTrece ==
    <<"1", "3">>

TextNoticiero ==
    <<"N", "o", "t", "i", "c", "i", "e", "r", "o">>

Cell(hasImg, text) == [hasImg |-> hasImg, text |-> text]

Row(imgAlt, link, titleText, cells) ==
    [imgAlt |-> imgAlt, link |-> link, titleText |-> titleText, cells |-> cells]

\* an image cell followed by the program cell
RowImage == Row(Some(TextTelefe), None, None, <<Cell(TRUE, << >>), Cell(FALSE, TextTelenoche)>>)

\* a channel link and a title element
RowLink == Row(None, Some(TextTelefeLink), Some(TextShow), <<Cell(FALSE, TextTelefeLink)>>)

\* a name that normalizes to the empty string
RowSymbols == Row(Some(TextBangs), None, Some(TextNews), <<Cell(TRUE, << >>)>>)

\* a header row: no image, no channel link
RowHeader == Row(None, None, None, <<Cell(FALSE, TextCanal), Cell(FALSE, TextAhora)>>)

\* a name of one character
RowShortName == Row(Some(TextE), None, Some(TextNews), <<Cell(TRUE, << >>)>>)

\* the cell after the channel cell holds a time: the scan finds the title
RowTimes ==
    Row(Some(TextTyc), None, None,
        <<Cell(FALSE, TextTime1), Cell(FALSE, TextTyc), Cell(FALSE, TextTime2),
          Cell(FALSE, TextFutbol)>>)

\* a channel with no program
RowNoProgram == Row(Some(TextAmerica), None, None, <<Cell(TRUE, TextAmerica)>>)

\* a name that normalizes to an array index
RowNumber == Row(Some(TextTrece), None, Some(TextNoticiero), <<Cell(TRUE, << >>)>>)

\* a channel of another row, here with no program
RowTelefeOff == Row(Some(TextTelefe), None, None, <<Cell(TRUE, TextTelefe)>>)

RowPool ==
    {RowImage, RowLink, RowSymbols, RowHeader, RowShortName, RowTimes, RowNoProgram, RowNumber,
     RowTelefeOff}

MaxRows == 2

\* the contents of the envelope when it holds a page (its rows are chosen when the
\* page is parsed)
Markup == <<"<", "h", "t", "m", "l", ">">>

\* the pages: at most MaxRows rows
DocPool == UNION {[1..n -> RowPool] : n \in 0..MaxRows}

FetchInit ==
    /\ fetchPc = "start"
    /\ requests = 0
    /\ error = None
    /\ htmlContent = None
    /\ rows = << >>
    /\ rowIdx = 0
    /\ fetchedMap = << >>
    /\ fetchResult = None
    /\ ParseIdle
    /\ FindIdle
    /\ NormIdle
    /\ AppIdle

\* await fetch(proxyUrl) throws
FetchThrows ==
    /\ fetchPc = "start"
    /\ requests' = requests + 1
    /\ error' = Some("fetch failed")
    /\ fetchPc' = OnThrow
    /\ UNCHANGED <<htmlContent, rows, rowIdx, fetchedMap, fetchResult>>
    /\ UNCHANGED <<parseVars, findVars, normVars, appVars>>

\* if (!response.ok) throw new Error("Proxy fetch failed")
FetchNotOk ==
    /\ fetchPc = "start"
    /\ requests' = requests + 1
    /\ error' = Some("Proxy fetch failed")
    /\ fetchPc' = OnThrow
    /\ UNCHANGED <<htmlContent, rows, rowIdx, fetchedMap, fetchResult>>
    /\ UNCHANGED <<parseVars, findVars, normVars, appVars>>

\* the response is ok
FetchOk ==
    /\ fetchPc = "start"
    /\ requests' = requests + 1
    /\ fetchPc' = "json"
    /\ UNCHANGED <<error, htmlContent, rows, rowIdx, fetchedMap, fetchResult>>
    /\ UNCHANGED <<parseVars, findVars, normVars, appVars>>

\* await response.json() throws, or data has no property to read (data is null)
JsonThrows ==
    /\ fetchPc = "json"
    /\ error' = Some("invalid json")
    /\ fetchPc' = OnThrow
    /\ UNCHANGED <<requests, htmlContent, rows, rowIdx, fetchedMap, fetchResult>>
    /\ UNCHANGED <<parseVars, findVars, normVars, appVars>>

\* if (!htmlContent) return {}: contents is missing or empty
JsonNoContents ==
    /\ fetchPc = "json"
    /\ htmlContent' \in {None, Some(<< >>)}
    /\ fetchResult' = Some(<< >>)
    /\ fetchPc' = "resolved"
    /\ UNCHANGED <<requests, error, rows, rowIdx, fetchedMap>>
    /\ UNCHANGED <<parseVars, findVars, normVars, appVars>>

\* data.contents holds markup
JsonContents ==
    /\ fetchPc = "json"
    /\ htmlContent' = Some(Markup)
    /\ fetchPc' = "dom"
    /\ UNCHANGED <<requests, error, rows, rowIdx, fetchedMap, fetchResult>>
    /\ UNCHANGED <<parseVars, findVars, normVars, appVars>>

\* new DOMParser() or parseFromString throws
DomThrows ==
    /\ fetchPc = "dom"
    /\ error' = Some("markup parsing failed")
    /\ fetchPc' = OnThrow
    /\ UNCHANGED <<requests, htmlContent, rows, rowIdx, fetchedMap, fetchResult>>
    /\ UNCHANGED <<parseVars, findVars, normVars, appVars>>

\* const rows = doc.querySelectorAll('tr'), and epgMap = {}
DomRows ==
    /\ fetchPc = "dom"
    /\ rows' \in DocPool
    /\ rowIdx' = 0
    /\ fetchedMap' = << >>
    /\ fetchPc' = "rows"
    /\ UNCHANGED <<requests, error, htmlContent, fetchResult>>
    /\ UNCHANGED <<parseVars, findVars, normVars, appVars>>

\* one call of the rows.forEach callback
FetchRow ==
    /\ fetchPc = "rows"
    /\ rowIdx < Len(rows)
    /\ fetchedMap' = ScrapeRow(fetchedMap, rows[rowIdx + 1])
    /\ rowIdx' = rowIdx + 1
    /\ UNCHANGED <<fetchPc, requests, error, htmlContent, rows, fetchResult>>
    /\ UNCHANGED <<parseVars, findVars, normVars, appVars>>

\* return epgMap
FetchReturn ==
    /\ fetchPc = "rows"
    /\ rowIdx >= Len(rows)
    /\ fetchResult' = Some(fetchedMap)
    /\ fetchPc' = "resolved"
    /\ UNCHANGED <<requests, error, htmlContent, rows, rowIdx, fetchedMap>>
    /\ UNCHANGED <<parseVars, findVars, normVars, appVars>>

\* a catch block that tries the request again
FetchCatchRetries ==
    /\ fetchPc = "catch"
    /\ fetchPc' = "start"
    /\ UNCHANGED <<requests, error, htmlContent, rows, rowIdx, fetchedMap, fetchResult>>
    /\ UNCHANGED <<parseVars, findVars, normVars, appVars>>

\* catch (e) { console.error(...); return {} }
FetchCatch ==
    /\ fetchPc = "catch"
    /\ fetchResult' = Some(<< >>)
    /\ fetchPc' = "resolved"
    /\ UNCHANGED <<requests, error, htmlContent, rows, rowIdx, fetchedMap>>
    /\ UNCHANGED <<parseVars, findVars, normVars, appVars>>

FetchNext ==
    \/ FetchThrows
    \/ FetchNotOk
    \/ FetchOk
    \/ JsonThrows
    \/ JsonNoContents
    \/ JsonContents
    \/ DomThrows
    \/ DomRows
    \/ FetchRow
    \/ FetchReturn
    \/ FetchCatch

SpecFetch == FetchInit /\ [][FetchNext]_vars

(***************************************************************************)
(* Properties of fetchGatoEPG                                              *)
(***************************************************************************)
Resolved == fetchPc = "resolved"

\* C10: fetchGatoEPG never rejects: when the request throws, the response is not ok,
\* the JSON envelope cannot be read or has no contents, or markup parsing fails, the
\* call resolves to an empty mapping.
C10_NeverRejects ==
    /\ fetchPc # "rejected"
    /\ error # None => fetchPc \in {"catch", "resolved"}
    /\ Resolved => fetchResult # None
    /\ (Resolved /\ (error # None \/ ~Truthy(htmlContent))) => fetchResult = Some(<< >>)

\* a request that threw, resolved to the empty mapping
C10_Witness ==
    /\ Resolved
    /\ error = Some("fetch failed")
    /\ requests = 1
    /\ fetchResult = Some(<< >>)

\* C11: an invocation of fetchGatoEPG issues exactly one outbound request and never
\* retries: no request is issued once one has been, and after a failed request the
\* invocation completes with an empty mapping, one request having been issued.
C11_OneRequest ==
    /\ requests = (IF fetchPc = "start" THEN 0 ELSE 1)
    /\ (Resolved /\ error \in {Some("fetch failed"), Some("Proxy fetch failed")}) =>
           fetchResult = Some(<< >>) /\ requests = 1

\* a response that was not ok, resolved to the empty mapping after one request
C11_Witness ==
    /\ Resolved
    /\ error = Some("Proxy fetch failed")
    /\ requests = 1
    /\ fetchResult = Some(<< >>)

\* the normalized key of a row's channel name
RowKey(row) == normalizeChannelName(Some(RowChannelName(row)))

\* the program title the heuristics find in a row
RowTitle(row) == RowProgramTitle(row, RowChannelName(row))

\* C14: every key of the mapping, while it is built and when it is returned, is a
\* non-empty string of lowercase ASCII letters and digits that normalization leaves
\* as it is; and a row whose channel name normalizes to the empty string leaves the
\* mapping as it was.
C14_KeysNonEmpty ==
    /\ [](\A k \in 1..Len(fetchedMap) :
             /\ fetchedMap[k].key # << >>
             /\ \A c \in 1..Len(fetchedMap[k].key) : AsciiLowerOrDigit(fetchedMap[k].key[c])
             /\ normalizeChannelName(Some(fetchedMap[k].key)) = fetchedMap[k].key)
    /\ [](fetchResult # None =>
             \A k \in 1..Len(fetchResult[1]) : fetchResult[1][k].key # << >>)
    /\ [][(fetchPc = "rows" /\ rowIdx' = rowIdx + 1 /\ RowKey(rows[rowIdx + 1]) = << >>) =>
              fetchedMap' = fetchedMap]_vars

\* a row named "!!" with a title, and a row that gives an entry
C14_Witness ==
    /\ Resolved
    /\ rows = <<RowSymbols, RowImage>>
    /\ fetchResult = Some(<<[key |-> KeyTelefe, value |-> TextTelenoche]>>)

\* the rows scraped so far that give a name and a title, the name being non-empty
\* with a non-empty normalized form
YieldingAsClaimed ==
    {j \in 1..rowIdx :
        RowChannelName(rows[j]) # << >> /\ RowKey(rows[j]) # << >> /\ RowTitle(rows[j]) # << >>}

\* the same, the name having at least two characters
Yielding ==
    {j \in 1..rowIdx :
        Len(RowChannelName(rows[j])) >= 2 /\ RowKey(rows[j]) # << >> /\ RowTitle(rows[j]) # << >>}

MapKeys(obj) == {obj[k].key : k \in 1..Len(obj)}

\* C15 as claimed: the keys of the mapping are those of the rows that give a
\* non-empty channel name, with a non-empty normalized form, and a non-empty title.
C15_Original ==
    /\ MapKeys(fetchedMap) = {RowKey(rows[j]) : j \in YieldingAsClaimed}
    /\ (Resolved /\ rows # << >>) => fetchResult = Some(fetchedMap)

\* C15 (amended): the keys of the mapping are those of the rows that give a channel
\* name of at least two characters, with a non-empty normalized form, and a
\* non-empty title: every such row has its entry, and a row that gives no name or
\* no title neither adds nor removes one.
C15_EntryPerRow ==
    /\ MapKeys(fetchedMap) = {RowKey(rows[j]) : j \in Yielding}
    /\ (Resolved /\ rows # << >>) => fetchResult = Some(fetchedMap)

\* a row that gives an entry, then a header row that is skipped
C15_Witness ==
    /\ Resolved
    /\ Len(rows) = 2
    /\ rows[1] = RowTimes
    /\ rows[2] = RowHeader
    /\ fetchResult = Some(<<[key |-> KeyTyc, value |-> TextFutbol]>>)

\* C17: the value under a key of the returned mapping is the program title of the
\* last row, in document order, that gives an entry for that key.
C17_LastRowWins ==
    Resolved =>
        \A k \in 1..Len(fetchResult[1]) :
            LET same == {j \in Yielding : RowKey(rows[j]) = fetchResult[1][k].key}
            IN  same # {} /\ fetchResult[1][k].value = RowTitle(rows[Max(same)])

\* two rows for "telefe": the title of the second is returned
C17_Witness ==
    /\ Resolved
    /\ rows = <<RowImage, RowLink>>
    /\ fetchResult = Some(<<[key |-> KeyTelefe, value |-> Trim(TextShow)]>>)

(***************************************************************************)
(* App                                                                     *)
(*                                                                         *)
(* The state of the component is the value of its useState hooks, the      *)
(* handleImport calls awaiting a response (fetches) and the setTimeout     *)
(* callbacks not yet run (timers, in the order they were set).  A pending  *)
(* call or callback keeps the values its closure captured at the render it *)
(* was created in.  volume and isMuted are read and written by the volume  *)
(* buttons alone and are left out.                                         *)
(***************************************************************************)
MaxChannels == 2

\* the handleImport and handleRetry calls that may be pending at one time
MaxPending == 2

\* a list of n channels parsed from the playlist src
Playlist(src, n) == [k \in 1..n |-> [url |-> <<src, k>>]]

\* the results of parseM3U(text) for the texts imported: no channel, the one channel
\* of playlist "a", or the MaxChannels channels of playlist "b"
ParsedPool == {Playlist("a", 0), Playlist("a", 1), Playlist("b", MaxChannels)}

\* setTimeout(callback, delay): kind names the callback, arg what its closure holds
Timer(kind, delay, arg) == [kind |-> kind, delay |-> delay, arg |-> arg]

\* bannerTimeout.current = setTimeout(() => setShowBanner(false), 4000)
BannerTimer == Timer("banner", 4000, << >>)

\* the timers other than the one bannerTimeout.current refers to
NotBanner(t) == t.kind # "banner"

\* triggerBanner(): the pending banner timer is cleared and a new one is set
triggerBanner(ts) == Append(SelectSeq(ts, NotBanner), BannerTimer)

\* a timer runs before those set later with the same or a longer delay
CanFire(k) == \A j \in 1..(k - 1) : timers[j].delay > timers[k].delay

\* the handleImport and handleRetry calls whose work is not finished
Pending == Len(fetches) + Len(SelectSeq(timers, NotBanner))

\* channels[currentIdx] is defined
HasCurrentChannel == currentIdx >= 0 /\ currentIdx < Len(channels)

\* changeChannel with the upper wrap off by one
NextIdxNoWrap(idx, dir, n) ==
    LET next  == idx + dir
        next1 == IF next < 0 THEN n - 1 ELSE next
    IN  IF next1 > n THEN 0 ELSE next1

\* the index changeChannel(dir) selects, n channels being loaded
NextIdx(idx, dir, n) ==
    LET next  == idx + dir
        next1 == IF next < 0 THEN n - 1 ELSE next
    IN  IF next1 >= n THEN 0 ELSE next1

\* processContent replacing the list also when nothing was parsed
processContentAlways(parsed, closurePowerOn, rest) ==
    /\ channels' = parsed
    /\ currentIdx' = 0
    /\ decoderStatus' = IF Len(parsed) > 0 THEN "active" ELSE "error"
    /\ showBanner' = TRUE
    /\ timers' = IF Len(parsed) > 0 THEN triggerBanner(rest)
                 ELSE Append(rest, Timer("status", 2000, "idle"))
    /\ powerOn' = (IF ~closurePowerOn THEN TRUE ELSE powerOn)

\* processContent(text), parsed being parseM3U(text), closurePowerOn the powerOn of
\* the render handleImport was called in, rest the timers still pending.  parseM3U
\* does not throw on a string, and the catch block does what the else branch does.
processContent(parsed, closurePowerOn, rest) ==
    IF Len(parsed) > 0
    THEN /\ channels' = parsed
         /\ currentIdx' = 0
         /\ decoderStatus' = "active"
         /\ showBanner' = TRUE
         /\ timers' = triggerBanner(rest)
         /\ powerOn' = (IF ~closurePowerOn THEN TRUE ELSE powerOn)
    ELSE /\ decoderStatus' = "error"
         /\ timers' = Append(rest, Timer("status", 2000, "idle"))
         /\ UNCHANGED <<channels, currentIdx, showBanner, powerOn>>

AppInit ==
    /\ channels = << >>
    /\ currentIdx = 0
    /\ powerOn = TRUE
    /\ showChannelList = FALSE
    /\ decoderStatus = "idle"
    /\ showBanner = FALSE
    /\ fetches = << >>
    /\ timers = << >>
    /\ ParseIdle
    /\ FindIdle
    /\ FetchIdle
    /\ NormIdle

\* handleImport(url, true) with the proxy request issued along with the direct one
ImportUrlBothAtOnce ==
    /\ decoderStatus # "loading"
    /\ Pending < MaxPending
    /\ decoderStatus' = "loading"
    /\ fetches' = Append(fetches, [stage |-> "direct", sent |-> <<"direct", "proxy">>,
                                   channels |-> channels, powerOn |-> powerOn])
    /\ UNCHANGED <<channels, currentIdx, powerOn, showChannelList, showBanner, timers>>
    /\ UNCHANGED <<parseVars, findVars, fetchVars, normVars>>

\* handleImport(url, true) up to the first await: the Load Stream button is disabled
\* while the status is 'loading'.  stage is the request awaited, sent the requests
\* the call has issued
ImportUrl ==
    /\ decoderStatus # "loading"
    /\ Pending < MaxPending
    /\ decoderStatus' = "loading"
    /\ fetches' = Append(fetches, [stage |-> "direct", sent |-> <<"direct">>,
                                   channels |-> channels, powerOn |-> powerOn])
    /\ UNCHANGED <<channels, currentIdx, powerOn, showChannelList, showBanner, timers>>
    /\ UNCHANGED <<parseVars, findVars, fetchVars, normVars>>

\* the request of call k at the given stage succeeds with a text that parses to parsed
ResponseOk(k, stage, parsed) ==
    /\ fetches[k].stage = stage
    /\ fetches' = RemoveAt(fetches, k)
    /\ processContent(parsed, fetches[k].powerOn, timers)
    /\ UNCHANGED showChannelList
    /\ UNCHANGED <<parseVars, findVars, fetchVars, normVars>>

\* Attempt 1 succeeds: processContent(text)
DirectOk == \E k \in 1..Len(fetches), parsed \in ParsedPool : ResponseOk(k, "direct", parsed)

\* Attempt 1 throws or is not ok: the proxy is tried
DirectFails ==
    \E k \in 1..Len(fetches) :
        /\ fetches[k].stage = "direct"
        /\ fetches' = [fetches EXCEPT ![k].stage = "proxy",
                                      ![k].sent = Append(@, "proxy")]
        /\ UNCHANGED <<channels, currentIdx, powerOn, showChannelList, decoderStatus,
                       showBanner, timers>>
        /\ UNCHANGED <<parseVars, findVars, fetchVars, normVars>>

\* Attempt 2 succeeds: processContent(text)
ProxyOk == \E k \in 1..Len(fetches), parsed \in ParsedPool : ResponseOk(k, "proxy", parsed)

\* Attempt 2 throws or is not ok: the outer catch
ProxyFails ==
    \E k \in 1..Len(fetches) :
        /\ fetches[k].stage = "proxy"
        /\ fetches' = RemoveAt(fetches, k)
        /\ decoderStatus' = "error"
        /\ timers' = Append(timers,
                            Timer("status", 3000,
                                  IF Len(fetches[k].channels) > 0 THEN "active" ELSE "idle"))
        /\ UNCHANGED <<channels, currentIdx, powerOn, showChannelList, showBanner>>
        /\ UNCHANGED <<parseVars, findVars, fetchVars, normVars>>

\* handleImport(content, false): a file upload or the demo playlist
ImportText ==
    /\ Pending < MaxPending
    /\ decoderStatus' = "loading"
    /\ \E parsed \in ParsedPool :
         timers' = Append(timers,
                          Timer("process", 500, [parsed |-> parsed, powerOn |-> powerOn]))
    /\ UNCHANGED <<channels, currentIdx, powerOn, showChannelList, showBanner, fetches>>
    /\ UNCHANGED <<parseVars, findVars, fetchVars, normVars>>

\* setTimeout(() => { processContent(content) }, 500) runs
ProcessTimerAt(k) ==
    /\ timers[k].kind = "process"
    /\ CanFire(k)
    /\ processContent(timers[k].arg.parsed, timers[k].arg.powerOn, RemoveAt(timers, k))
    /\ UNCHANGED <<showChannelList, fetches>>
    /\ UNCHANGED <<parseVars, findVars, fetchVars, normVars>>

ProcessTimer == \E k \in 1..Len(timers) : ProcessTimerAt(k)

\* setTimeout(() => setDecoderStatus(...), 2000 or 3000) runs
StatusTimer ==
    \E k \in 1..Len(timers) :
        /\ timers[k].kind = "status"
        /\ CanFire(k)
        /\ decoderStatus' = timers[k].arg
        /\ timers' = RemoveAt(timers, k)
        /\ UNCHANGED <<channels, currentIdx, powerOn, showChannelList, showBanner, fetches>>
        /\ UNCHANGED <<parseVars, findVars, fetchVars, normVars>>

\* setTimeout(() => setCurrentIdx(current), 100) runs
RetryTimer ==
    \E k \in 1..Len(timers) :
        /\ timers[k].kind = "retry"
        /\ CanFire(k)
        /\ currentIdx' = timers[k].arg
        /\ timers' = RemoveAt(timers, k)
        /\ UNCHANGED <<channels, powerOn, showChannelList, decoderStatus, showBanner, fetches>>
        /\ UNCHANGED <<parseVars, findVars, fetchVars, normVars>>

\* setTimeout(() => setShowBanner(false), 4000) runs
BannerTimeout ==
    \E k \in 1..Len(timers) :
        /\ timers[k].kind = "banner"
        /\ CanFire(k)
        /\ showBanner' = FALSE
        /\ timers' = RemoveAt(timers, k)
        /\ UNCHANGED <<channels, currentIdx, powerOn, showChannelList, decoderStatus, fetches>>
        /\ UNCHANGED <<parseVars, findVars, fetchVars, normVars>>

\* changeChannel(dir)
changeChannel(dir) ==
    /\ IF Len(channels) = 0 \/ ~powerOn
       THEN UNCHANGED <<currentIdx, showBanner, timers>>
       ELSE /\ currentIdx' = NextIdx(currentIdx, dir, Len(channels))
            /\ showBanner' = TRUE
            /\ timers' = triggerBanner(timers)
    /\ UNCHANGED <<channels, powerOn, showChannelList, decoderStatus, fetches>>
    /\ UNCHANGED <<parseVars, findVars, fetchVars, normVars>>

\* the channel up and channel down buttons
ChangeChannel == \E dir \in {1, -1} : changeChannel(dir)

\* selectChannel(idx) from a button of the channel list, which is rendered when
\* showChannelList && powerOn, with one button per channel
SelectChannel ==
    /\ showChannelList /\ powerOn
    /\ \E idx \in 0..(Len(channels) - 1) : currentIdx' = idx
    /\ showChannelList' = FALSE
    /\ showBanner' = TRUE
    /\ timers' = triggerBanner(timers)
    /\ UNCHANGED <<channels, powerOn, decoderStatus, fetches>>
    /\ UNCHANGED <<parseVars, findVars, fetchVars, normVars>>

\* the power button: setPowerOn(!powerOn); setShowBanner(false)
TogglePower ==
    /\ powerOn' = ~powerOn
    /\ showBanner' = FALSE
    /\ UNCHANGED <<channels, currentIdx, showChannelList, decoderStatus, fetches, timers>>
    /\ UNCHANGED <<parseVars, findVars, fetchVars, normVars>>

\* the menu button (disabled when the power is off) and the close button of the list
ToggleChannelList ==
    /\ powerOn
    /\ showChannelList' = ~showChannelList
    /\ UNCHANGED <<channels, currentIdx, powerOn, decoderStatus, showBanner, fetches, timers>>
    /\ UNCHANGED <<parseVars, findVars, fetchVars, normVars>>

\* handleRetry(), from the RECONNECT button the player shows when the stream of the
\* current channel failed
HandleRetry ==
    /\ powerOn
    /\ HasCurrentChannel
    /\ Pending < MaxPending
    /\ currentIdx' = -1
    /\ timers' = Append(timers, Timer("retry", 100, currentIdx))
    /\ UNCHANGED <<channels, powerOn, showChannelList, decoderStatus, showBanner, fetches>>
    /\ UNCHANGED <<parseVars, findVars, fetchVars, normVars>>

AppNext ==
    \/ ImportUrl
    \/ DirectOk
    \/ DirectFails
    \/ ProxyOk
    \/ ProxyFails
    \/ ImportText
    \/ ProcessTimer
    \/ StatusTimer
    \/ RetryTimer
    \/ BannerTimeout
    \/ ChangeChannel
    \/ SelectChannel
    \/ TogglePower
    \/ ToggleChannelList
    \/ HandleRetry

SpecApp == AppInit /\ [][AppNext]_vars

(***************************************************************************)
(* Properties of the App                                                   *)
(***************************************************************************)
\* a step in which processContent runs on a text that parses to no channel
ImportOfNoChannel ==
    \/ \E k \in 1..Len(timers) :
           /\ timers[k].kind = "process"
           /\ timers[k].arg.parsed = << >>
           /\ ProcessTimerAt(k)
    \/ \E k \in 1..Len(fetches) : ResponseOk(k, "direct", << >>)
    \/ \E k \in 1..Len(fetches) : ResponseOk(k, "proxy", << >>)

\* C16: when an import parses to zero channels decoderStatus becomes 'error' and the
\* channel list and the current index are left as they were.
C16_NoChannelsFound ==
    [][ImportOfNoChannel =>
           /\ decoderStatus' = "error"
           /\ channels' = channels
           /\ currentIdx' = currentIdx]_vars

\* playlist "b" is loaded, its last channel selected, and an import that parsed to
\* no channel has set the status to 'error'; its reset timer is pending
C16_Witness ==
    /\ channels = Playlist("b", MaxChannels)
    /\ currentIdx = MaxChannels - 1
    /\ decoderStatus = "error"
    /\ \E k \in 1..Len(timers) : timers[k] = Timer("status", 2000, "idle")

\* the index after count presses of a channel button
RECURSIVE Presses(_, _, _, _)
Presses(idx, dir, n, count) ==
    IF count = 0 THEN idx ELSE Presses(NextIdx(idx, dir, n), dir, n, count - 1)

\* C18: with n > 0 channels loaded and the power on, changeChannel(+1) from a valid
\* index i selects (i + 1) mod n and changeChannel(-1) selects (i - 1) mod n, and n
\* presses in one direction come back to the channel they started from; with no
\* channel loaded or the power off changeChannel leaves the index as it is.
C18_CyclicNavigation ==
    /\ [][\A dir \in {1, -1} :
            changeChannel(dir) =>
                IF Len(channels) > 0 /\ powerOn
                THEN HasCurrentChannel =>
                         currentIdx' = (currentIdx + dir) % Len(channels)
                ELSE currentIdx' = currentIdx]_vars
    /\ []((Len(channels) > 0 /\ HasCurrentChannel) =>
             \A dir \in {1, -1} :
                 Presses(currentIdx, dir, Len(channels), Len(channels)) = currentIdx)

\* the last channel of playlist "b" is current with the banner shown: channel down
\* from the first channel wraps to it
C18_Witness ==
    /\ channels = Playlist("b", MaxChannels)
    /\ Len(channels) >= 2
    /\ currentIdx = Len(channels) - 1
    /\ powerOn
    /\ showBanner
    /\ decoderStatus = "active"

\* C20: whenever the channel list is not empty and no reconnect timer is pending, the
\* current index is a valid position of the list.
C20_IndexInRange ==
    (Len(channels) > 0 /\ \A k \in 1..Len(timers) : timers[k].kind # "retry") =>
        HasCurrentChannel

\* no import is in flight and no status-reset timer is pending
ImportsSettled ==
    /\ fetches = << >>
    /\ \A k \in 1..Len(timers) : timers[k].kind \notin {"process", "status"}

\* C21: once no import is in flight and every pending status-reset timer has fired,
\* decoderStatus is 'active' if and only if the channel list is not empty.
C21_StatusMatchesList ==
    ImportsSettled => (decoderStatus = "active" <=> Len(channels) > 0)

\* C22: a URL import issues the direct request first and the proxy request only
\* after the direct request failed, two requests at most; the list is parsed from
\* the first response that succeeds, after which the call issues no request; and
\* when both requests fail decoderStatus becomes 'error' and the channel list and
\* the current index stay as they were.
C22_DirectThenProxy ==
    /\ [](\A k \in 1..Len(fetches) :
             fetches[k].sent = (IF fetches[k].stage = "direct"
                                THEN <<"direct">> ELSE <<"direct", "proxy">>))
    /\ [][DirectFails =>
              \E k \in 1..Len(fetches) :
                  /\ fetches[k].sent = <<"direct">>
                  /\ fetches' = [fetches EXCEPT ![k].stage = "proxy",
                                                ![k].sent = <<"direct", "proxy">>]]_vars
    /\ [][\A k \in 1..Len(fetches), parsed \in ParsedPool :
              ResponseOk(k, fetches[k].stage, parsed) =>
                  /\ Len(fetches') = Len(fetches) - 1
                  /\ Len(parsed) > 0 => channels' = parsed /\ decoderStatus' = "active"]_vars
    /\ [][ProxyFails =>
              /\ Len(fetches') = Len(fetches) - 1
              /\ decoderStatus' = "error"
              /\ channels' = channels
              /\ currentIdx' = currentIdx]_vars

\* playlist "b" is loaded with its last channel selected, and a URL import whose two
\* requests failed has set the status to 'error'; its reset timer is pending
C22_Witness ==
    /\ channels = Playlist("b", MaxChannels)
    /\ currentIdx = MaxChannels - 1
    /\ fetches = << >>
    /\ decoderStatus = "error"
    /\ \E k \in 1..Len(timers) : timers[k] = Timer("status", 3000, "active")

====
